---- MODULE Spec2Model ----
(***************************************************************************)
(* A model of jukebox (src/src/jukebox/__main__.py): the ListPicker        *)
(* selector, get_audio_files, get_average_duration, create_playlist and    *)
(* the run of main that ties them together.                                *)
(*                                                                         *)
(* Three specifications share the variables:                               *)
(*   Spec          a whole run of main over a small directory tree;        *)
(*   SpecAssemble  create_playlist called with arbitrary arguments;        *)
(*   SpecAverage   get_average_duration called with arbitrary arguments.   *)
(***************************************************************************)
EXTENDS Integers, Sequences, FiniteSets

\* ------------------------------------------------------------- bounds
\* The most audio tracks a music folder holds (and a track list's length).
MaxTracks == 3
\* The largest --ad-every value tried.
MaxAdEvery == 2

\* ---------------------------------------------------------- constants
\* Python's None, as returned by select_value on a quit.
None == "None"
\* None where a path is expected.
NoPath == <<>>
\* The duration oracle's answers: <<>> is "no usable sample" (MutagenFile
\* raised, or returned nothing), <<d>> is audio.info.length = d seconds.
\* The lengths tried: 0; 24, for which one minute is 2.5 songs (a tie of
\* round); 150, longer than two minutes.
Unknown == <<>>
Durations == {0, 24, 150}
Samples == {Unknown} \cup {<<d>> : d \in Durations}
\* The answers tried in a whole run of main.
MainSamples == {Unknown, <<24>>, <<150>>}

AUDIO_EXTS == {".mp3", ".ogg", ".flac", ".wav", ".aac", ".m4a", ".opus"}

\* The names used in the directory tree, in Python's string order
\* (upper case sorts before lower case).
NameOrder ==
  <<"README", "ads", "cover.jpg", "empty", "jingle.txt", "live.mp3",
    "promo.mp3", "rock", "t1.mp3", "t2.OGG", "t3.flac", "t4.Wav">>
TrackNames == <<"t1.mp3", "t2.OGG", "t3.flac", "t4.Wav">>

\* Path.suffix of a name.
Suffix(name) ==
  CASE name = "cover.jpg" -> ".jpg"
    [] name = "jingle.txt" -> ".txt"
    [] name \in {"live.mp3", "promo.mp3", "t1.mp3"} -> ".mp3"
    [] name = "t2.OGG" -> ".OGG"
    [] name = "t3.flac" -> ".flac"
    [] name = "t4.Wav" -> ".Wav"
    [] OTHER -> ""

\* str.lower on the suffixes above.
Lower(s) ==
  CASE s = ".OGG" -> ".ogg"
    [] s = ".Wav" -> ".wav"
    [] OTHER -> s

Rank(name) == CHOOSE k \in 1..Len(NameOrder) : NameOrder[k] = name

\* ----------------------------------------------------------- sequences
Range(s) == {s[k] : k \in 1..Len(s)}

Max(a, b) == IF a >= b THEN a ELSE b

\* Slice with the end index taken as inclusive.
SliceInclusive(s, lo, hi) ==
  SubSeq(s, lo + 1, IF hi + 1 <= Len(s) THEN hi + 1 ELSE Len(s))

\* s[lo:hi] of Python for 0 <= lo <= hi (0-based, hi exclusive, clipped).
Slice(s, lo, hi) ==
  SubSeq(s, lo + 1, IF hi <= Len(s) THEN hi ELSE Len(s))

RECURSIVE SumSeq(_)
SumSeq(s) == IF s = <<>> THEN 0 ELSE s[1] + SumSeq(Tail(s))

\* A shuffle that draws each position independently (with repeats).
ShufflesWithRepeats(s) ==
  LET n == Len(s)
  IN  {[k \in 1..n |-> s[f[k]]] : f \in [1..n -> 1..n]}

\* The arrangements random.shuffle can leave a list in.
Shuffles(s) ==
  LET n == Len(s)
      Bij == {f \in [1..n -> 1..n] : \A a, b \in 1..n : f[a] = f[b] => a = b}
  IN  {[k \in 1..n |-> s[f[k]]] : f \in Bij}

\* --------------------------------------------------------------- paths
\* A path is the sequence of its parts under the music directory "md".
music_directory == <<"md">>
Child(dir, name) == Append(dir, name)
Name(p) == p[Len(p)]
Parent(p) == SubSeq(p, 1, Len(p) - 1)
\* p.relative_to(base), base a prefix of p.
RelativeTo(p, base) == SubSeq(p, Len(base) + 1, Len(p))

\* sorted() of a set of sibling paths: by name, in string order.
RECURSIVE SortPaths(_)
SortPaths(S) ==
  IF S = {} THEN <<>>
  ELSE LET m == CHOOSE p \in S : \A q \in S : Rank(Name(p)) <= Rank(Name(q))
       IN  <<m>> \o SortPaths(S \ {m})

\* The directory tree of a run whose "rock" folder holds n audio tracks:
\* each directory's entries, an entry a name and whether it is a directory.
Entry(name, isdir) == [name |-> name, is_dir |-> isdir]
Tree(n) ==
  [d \in {music_directory, <<"md", "ads">>, <<"md", "rock">>, <<"md", "empty">>} |->
     CASE d = music_directory ->
            {Entry("ads", TRUE), Entry("rock", TRUE), Entry("empty", TRUE),
             Entry("README", FALSE)}
       [] d = <<"md", "ads">> ->
            {Entry("promo.mp3", FALSE), Entry("jingle.txt", FALSE)}
       [] d = <<"md", "rock">> ->
            {Entry(TrackNames[k], FALSE) : k \in 1..n}
              \cup {Entry("cover.jpg", FALSE), Entry("live.mp3", TRUE)}
       [] OTHER -> {}]

\* The audio files anywhere in a tree: the paths the oracle is asked about
\* with a chance of an answer.
is_audio_file(p) == Lower(Suffix(Name(p))) \in AUDIO_EXTS
FilePaths(tree) ==
  UNION {{Child(d, e.name) : e \in {x \in tree[d] : ~x.is_dir}} : d \in DOMAIN tree}
AudioPaths(tree) == {p \in FilePaths(tree) : is_audio_file(p)}

\* --------------------------------------------------------------- state
VARIABLES
  pc,               \* where the run is
  ad_every,         \* args.ad_every
  md_exists,        \* music_directory.exists()
  pd_exists,        \* playlist_directory.exists()
  fs,               \* the directory tree under the music directory
  length,           \* the duration oracle: audio path -> sample
  app,              \* the ListPicker of the select_value call in progress, with
                    \* the last event it handled (event)
  calls,            \* the instructions select_value was called with, in order
  returned,         \* what each select_value call returned, in order
  ads_folder,       \* main's ads_folder, once resolved to a path
  ad_file,          \* main's ad_file / create_playlist's ad_file
  music_folder,     \* main's music_folder, once resolved to a path
  tracks,           \* main's tracks; create_playlist shuffles it in place
  k,                \* get_average_duration: index of the next path
  durations,        \* get_average_duration: the samples gathered
  avg_duration,     \* the mean as a fraction [num, den]
  cadence,          \* create_playlist's songs_between_ads
  i,                \* create_playlist's i
  out,              \* create_playlist's playlist
  inserted,         \* positions of out where line 127 appended the ad
  iters,            \* iterations of create_playlist's loop so far
  given,            \* the list create_playlist was passed, before the shuffle
  playlist,         \* main's playlist
  total_duration,   \* main's total_duration
  songs_between_ads,\* main's songs_between_ads (lines 226-230)
  message,          \* the last message printed
  file              \* jukebox.m3u: <<>> until written, then <<lines>>

vars ==
  <<pc, ad_every, md_exists, pd_exists, fs, length, app, calls, returned,
    ads_folder, ad_file, music_folder, tracks, k, durations, avg_duration,
    cadence, i, out, inserted, iters, given, playlist, total_duration,
    songs_between_ads, message, file>>

argVars == <<ad_every, md_exists, pd_exists, fs, length>>
pickVars == <<app, calls, returned>>
avgVars == <<k, durations, avg_duration>>
cpVars == <<cadence, i, out, inserted, iters, given>>
endVars == <<playlist, total_duration, songs_between_ads, file>>

\* ------------------------------------------------------------ fractions
\* avg_duration is the float sum/len; the model keeps it exact.
Frac(n, d) == [num |-> n, den |-> d]
Zero == Frac(0, 1)
IsZero(q) == q.num = 0
IsPositive(q) == q.num > 0

\* Rounding that truncates instead of rounding to nearest.
RoundDown(p, q) == p \div q

\* round(p / q) of Python for p >= 0, q > 0: to nearest, ties to even.
Round(p, q) ==
  LET fl == p \div q
      r == p % q
  IN  IF 2 * r < q THEN fl
      ELSE IF 2 * r > q THEN fl + 1
      ELSE IF fl % 2 = 0 THEN fl ELSE fl + 1

\* The cadence without its floor of 1.
SongsBetweenAdsNoFloor(x, avg) == Round(x * 60 * avg.den, avg.num)

\* max(1, round((ad_every * 60) / avg)) for avg > 0 (lines 213 and 230).
SongsBetweenAds(x, avg) == Max(1, Round(x * 60 * avg.den, avg.num))

\* The duration oracle: MutagenFile(p), then "audio and audio.info".
Lookup(p) == IF p \in DOMAIN length THEN length[p] ELSE Unknown

\* ------------------------------------------------------------- picker
\* An event the picker handled: a list selection of item number item, or a key.
Event(kind, item, key) == [kind |-> kind, item |-> item, key |-> key]
NoEvent == Event("none", 0, "")
NoApp ==
  [instruction |-> "", values |-> <<>>, selection |-> None, running |-> FALSE,
   event |-> NoEvent]

\* ListPicker(instruction, values) followed by app.run().
ListPicker(instruction, values) ==
  [instruction |-> instruction, values |-> values, selection |-> None, running |-> TRUE,
   event |-> NoEvent]

\* str(label.renderable) of the Label compose built from v: the text the
\* label was given (the names of the tree hold no console markup).
LabelText(v) == v

\* The names of the entries of dir a listing keeps, as the list shown.
Names(dir, wantDirs) ==
  LET S == {Child(dir, e.name) : e \in {x \in fs[dir] : x.is_dir = wantDirs}}
      sorted == SortPaths(S)
  IN  [n \in 1..Len(sorted) |-> Name(sorted[n])]

Keys == {"q", "down", "x"}

\* on_list_view_selected: the event carries one of the items compose built.
OnListViewSelected(n) ==
  /\ app.running
  /\ n \in 1..Len(app.values)
  /\ app' = [app EXCEPT !.selection = LabelText(app.values[n]), !.running = FALSE,
                         !.event = Event("selected", n, "")]
  /\ UNCHANGED <<pc, argVars, calls, returned, ads_folder, ad_file, music_folder,
                 tracks, avgVars, cpVars, endVars, message>>

\* on_key without its test of the key: any key exits.
OnKeyAnyKeyExits(key) ==
  /\ app.running
  /\ app' = [app EXCEPT !.running = FALSE, !.event = Event("key", 0, key)]
  /\ UNCHANGED <<pc, argVars, calls, returned, ads_folder, ad_file, music_folder,
                 tracks, avgVars, cpVars, endVars, message>>

\* on_key: 'q' exits, every other key is ignored.
OnKey(key) ==
  /\ app.running
  /\ app' = IF key = "q"
              THEN [app EXCEPT !.running = FALSE, !.event = Event("key", 0, key)]
              ELSE [app EXCEPT !.event = Event("key", 0, key)]
  /\ UNCHANGED <<pc, argVars, calls, returned, ads_folder, ad_file, music_folder,
                 tracks, avgVars, cpVars, endVars, message>>

\* The resolution "(x,) = [path for path in dir.iterdir() if path.name == label]".
Resolve(dir, label) ==
  CHOOSE p \in {Child(dir, e.name) : e \in fs[dir]} : Name(p) = label

\* --------------------------------------------------------------- main
\* A parser.exit that prints the text and lets the run go on.
ExitNotTerminal(text) ==
  /\ pc' = pc
  /\ message' = text

\* parser.exit(1, text).
Exit(text) ==
  /\ pc' = "exit"
  /\ message' = text

\* select_value(instruction, values) up to app.run().
Call_select_value(instruction, values) ==
  /\ app' = ListPicker(instruction, values)
  /\ calls' = Append(calls, instruction)

\* Lines 159-177: the arguments are checked and the ads folder is asked for.
ParseArgs ==
  /\ pc = "start"
  /\ IF ad_every < 0
       THEN Exit("Minutes between ads must be positive number") /\ UNCHANGED <<app, calls>>
     ELSE IF ~md_exists
       THEN Exit("Music directory does not exist.") /\ UNCHANGED <<app, calls>>
     ELSE IF ~pd_exists
       THEN Exit("Playlists directory does not exist.") /\ UNCHANGED <<app, calls>>
     ELSE /\ Call_select_value("Select the ads folder", Names(music_directory, TRUE))
          /\ pc' = "select_ads_folder"
          /\ UNCHANGED message
  /\ UNCHANGED <<argVars, returned, ads_folder, ad_file, music_folder, tracks,
                 avgVars, cpVars, endVars>>

\* Lines 72 and 178-187: the ads folder's picker has exited.
AdsFolderReturned ==
  /\ pc = "select_ads_folder"
  /\ ~app.running
  /\ returned' = Append(returned, app.selection)
  /\ IF app.selection = None
       THEN /\ Exit("An ads folder must be chosen.")
            /\ UNCHANGED <<app, calls, ads_folder>>
       ELSE LET dir == Resolve(music_directory, app.selection)
            IN  /\ ads_folder' = dir
                /\ Call_select_value("Select the ad file", Names(dir, FALSE))
                /\ pc' = "select_ad_file"
                /\ UNCHANGED message
  /\ UNCHANGED <<argVars, ad_file, music_folder, tracks, avgVars, cpVars, endVars>>

\* Lines 72 and 188-195: the ad file's picker has exited.
AdFileReturned ==
  /\ pc = "select_ad_file"
  /\ ~app.running
  /\ returned' = Append(returned, app.selection)
  /\ IF app.selection = None
       THEN /\ Exit("An ad file must be chosen.")
            /\ UNCHANGED <<app, calls, ad_file>>
       ELSE /\ ad_file' = Resolve(ads_folder, app.selection)
            /\ Call_select_value("Select the music folder", Names(music_directory, TRUE))
            /\ pc' = "select_music_folder"
            /\ UNCHANGED message
  /\ UNCHANGED <<argVars, ads_folder, music_folder, tracks, avgVars, cpVars, endVars>>

\* Lines 72 and 196-200: the music folder's picker has exited.
MusicFolderReturned ==
  /\ pc = "select_music_folder"
  /\ ~app.running
  /\ returned' = Append(returned, app.selection)
  /\ IF app.selection = None
       THEN /\ Exit("A music folder must be chosen.")
            /\ UNCHANGED music_folder
       ELSE /\ music_folder' = Resolve(music_directory, app.selection)
            /\ pc' = "get_audio_files"
            /\ UNCHANGED message
  /\ UNCHANGED <<argVars, app, calls, ads_folder, ad_file, tracks, avgVars, cpVars,
                 endVars>>

\* get_audio_files(directory): the audio files of the directory, sorted.
get_audio_files(directory) ==
  SortPaths({p \in {Child(directory, e.name) : e \in {x \in fs[directory] : ~x.is_dir}} :
               is_audio_file(p)})

\* Lines 202-207 without the return on an empty track list.
GetAudioFilesNoReturn ==
  /\ pc = "get_audio_files"
  /\ tracks' = get_audio_files(music_folder)
  /\ message' = IF tracks' = <<>> THEN "No audio files found." ELSE message
  /\ pc' = "get_average_duration"
  /\ k' = 1
  /\ durations' = <<>>
  /\ UNCHANGED <<argVars, pickVars, ads_folder, ad_file, music_folder, avg_duration,
                 cpVars, endVars>>

\* Lines 202-207: the tracks are listed; none ends the run, else the
\* averaging starts.
GetAudioFiles ==
  /\ pc = "get_audio_files"
  /\ tracks' = get_audio_files(music_folder)
  /\ IF tracks' = <<>>
       THEN /\ message' = "No audio files found."
            /\ pc' = "return"
            /\ UNCHANGED avgVars
       ELSE /\ pc' = "get_average_duration"
            /\ k' = 1
            /\ durations' = <<>>
            /\ UNCHANGED <<avg_duration, message>>
  /\ UNCHANGED <<argVars, pickVars, ads_folder, ad_file, music_folder, cpVars, endVars>>

\* ------------------------------------------------- get_average_duration
\* A path without a sample counted as a sample of 0.
SampledZero(ds, sample) == IF sample = Unknown THEN Append(ds, 0) ELSE Append(ds, sample[1])

\* Lines 95-100: the sample of one path is appended; a path without one
\* (an exception, or a falsy audio or audio.info) leaves the list as it is.
Sampled(ds, sample) == IF sample = Unknown THEN ds ELSE Append(ds, sample[1])

\* Lines 94-100: one path of the loop.
AverageStep ==
  /\ pc = "get_average_duration"
  /\ k <= Len(tracks)
  /\ durations' = Sampled(durations, Lookup(tracks[k]))
  /\ k' = k + 1
  /\ UNCHANGED <<pc, argVars, pickVars, ads_folder, ad_file, music_folder, tracks,
                 avg_duration, cpVars, endVars, message>>

\* Line 101: sum(durations) / len(durations) if durations else 0.
Mean(ds) == IF ds # <<>> THEN Frac(SumSeq(ds), Len(ds)) ELSE Zero

AverageReturn ==
  /\ pc = "get_average_duration"
  /\ k > Len(tracks)
  /\ avg_duration' = Mean(durations)
  /\ pc' = "average_returned"
  /\ UNCHANGED <<argVars, pickVars, ads_folder, ad_file, music_folder, tracks,
                 k, durations, cpVars, endVars, message>>

\* ------------------------------------------------------ create_playlist
\* The loop of create_playlist is followed for at most LoopCap iterations
\* (a cadence of 0 never advances i).
LoopCap == MaxTracks + 2

\* Lines 209-217: create_playlist is called when there is an ad file and a
\* positive average; otherwise the playlist is the track list as it is.
BuildPlaylist ==
  /\ pc = "average_returned"
  /\ IF ad_file # NoPath /\ IsPositive(avg_duration)
       THEN /\ cadence' = SongsBetweenAds(ad_every, avg_duration)
            /\ pc' = "create_playlist"
            /\ UNCHANGED playlist
       ELSE /\ playlist' = tracks
            /\ pc' = "total_duration"
            /\ UNCHANGED cadence
  /\ UNCHANGED <<argVars, pickVars, ads_folder, ad_file, music_folder, tracks,
                 avgVars, i, out, inserted, iters, given, total_duration,
                 songs_between_ads, file, message>>

\* Lines 120-122: random.shuffle(tracks), in place; i = 0; playlist = [].
Shuffle ==
  /\ pc = "create_playlist"
  /\ tracks' \in Shuffles(tracks)
  /\ i' = 0
  /\ out' = <<>>
  /\ inserted' = {}
  /\ iters' = 0
  /\ given' = tracks
  /\ pc' = "create_playlist_loop"
  /\ UNCHANGED <<argVars, pickVars, ads_folder, ad_file, music_folder, avgVars,
                 cadence, endVars, message>>

\* Line 126 with a short last chunk taken as a full one.
AdFollowsShort(chunk) == ad_file # NoPath /\ Len(chunk) <= cadence

\* Line 126: "if ad_file and len(chunk) == songs_between_ads".
AdFollows(chunk) == ad_file # NoPath /\ Len(chunk) = cadence

\* Lines 123-128: one iteration of the while loop.
LoopStep ==
  /\ pc = "create_playlist_loop"
  /\ i < Len(tracks)
  /\ iters < LoopCap
  /\ LET chunk == Slice(tracks, i, i + cadence)
         extended == out \o chunk
         withAd == AdFollows(chunk)
     IN  /\ out' = IF withAd THEN Append(extended, ad_file) ELSE extended
         /\ inserted' = IF withAd THEN inserted \cup {Len(extended) + 1} ELSE inserted
  /\ i' = i + cadence
  /\ iters' = iters + 1
  /\ UNCHANGED <<pc, argVars, pickVars, ads_folder, ad_file, music_folder, tracks,
                 avgVars, cadence, given, endVars, message>>

\* Line 129: the loop's condition fails and the playlist is returned.
LoopReturn ==
  /\ pc = "create_playlist_loop"
  /\ ~(i < Len(tracks))
  /\ pc' = "create_playlist_returned"
  /\ UNCHANGED <<argVars, pickVars, ads_folder, ad_file, music_folder, tracks,
                 avgVars, cpVars, endVars, message>>

\* ------------------------------------------------------- main, the end
\* Line 209: main's playlist is what create_playlist returned.
PlaylistAssigned ==
  /\ pc = "create_playlist_returned"
  /\ playlist' = out
  /\ pc' = "total_duration"
  /\ UNCHANGED <<argVars, pickVars, ads_folder, ad_file, music_folder, tracks,
                 avgVars, cpVars, total_duration, songs_between_ads, file, message>>

\* Lines 218-224: a sample adds its length, no sample adds nothing.
RECURSIVE TotalOf(_)
TotalOf(ps) ==
  IF ps = <<>> THEN 0
  ELSE (IF Lookup(ps[1]) = Unknown THEN 0 ELSE Lookup(ps[1])[1]) + TotalOf(Tail(ps))

TotalDuration ==
  /\ pc = "total_duration"
  /\ total_duration' = TotalOf(playlist)
  /\ pc' = "report"
  /\ UNCHANGED <<argVars, pickVars, ads_folder, ad_file, music_folder, tracks,
                 avgVars, cpVars, playlist, songs_between_ads, file, message>>

\* Lines 226-236: songs_between_ads, and what is printed.
Report ==
  /\ pc = "report"
  /\ IF IsZero(avg_duration)
       THEN /\ songs_between_ads' = 0
            /\ message' = "Could not calculate average song duration. No ads will be inserted."
       ELSE /\ songs_between_ads' = SongsBetweenAds(ad_every, avg_duration)
            /\ message' = "Ads will be inserted approximately every N songs"
  /\ pc' = "write"
  /\ UNCHANGED <<argVars, pickVars, ads_folder, ad_file, music_folder, tracks,
                 avgVars, cpVars, playlist, total_duration, file>>

\* Lines 238-242: each entry relative to its grandparent, one per line.
Lines(ps) == [n \in 1..Len(ps) |-> RelativeTo(ps[n], Parent(Parent(ps[n])))]

WriteFile ==
  /\ pc = "write"
  /\ file' = <<Lines(playlist)>>
  /\ pc' = "done"
  /\ UNCHANGED <<argVars, pickVars, ads_folder, ad_file, music_folder, tracks,
                 avgVars, cpVars, playlist, total_duration, songs_between_ads, message>>

\* ------------------------------------------------------ specifications
SeqsUpTo(S, n) == UNION {[1..m -> S] : m \in 0..n}

\* The track paths create_playlist and get_average_duration are tried on.
TrackUniverse == {Child(<<"md", "rock">>, TrackNames[j]) : j \in 1..MaxTracks}
PromoPath == <<"md", "ads", "promo.mp3">>

Idle ==
  /\ app = NoApp
  /\ calls = <<>>
  /\ returned = <<>>
  /\ ads_folder = NoPath
  /\ music_folder = NoPath
  /\ i = 0
  /\ out = <<>>
  /\ inserted = {}
  /\ iters = 0
  /\ given = <<>>
  /\ playlist = <<>>
  /\ total_duration = 0
  /\ songs_between_ads = 0
  /\ message = ""
  /\ file = <<>>

\* A run of main: any --ad-every from -1 to MaxAdEvery, either directory
\* present or not, a tree with 0..MaxTracks tracks and, for each audio file,
\* no sample or a length of 24 or 150 seconds.
Init ==
  /\ pc = "start"
  /\ ad_every \in -1..MaxAdEvery
  /\ md_exists \in BOOLEAN
  /\ pd_exists \in BOOLEAN
  /\ \E n \in 0..MaxTracks : fs = Tree(n)
  /\ length \in [AudioPaths(fs) -> MainSamples]
  /\ Idle
  /\ ad_file = NoPath
  /\ tracks = <<>>
  /\ k = 1
  /\ durations = <<>>
  /\ avg_duration = Zero
  /\ cadence = 0

Next ==
  \/ ParseArgs
  \/ \E n \in 1..MaxTracks + 2 : OnListViewSelected(n)
  \/ \E key \in Keys : OnKey(key)
  \/ AdsFolderReturned
  \/ AdFileReturned
  \/ MusicFolderReturned
  \/ GetAudioFiles
  \/ AverageStep
  \/ AverageReturn
  \/ BuildPlaylist
  \/ Shuffle
  \/ LoopStep
  \/ LoopReturn
  \/ PlaylistAssigned
  \/ TotalDuration
  \/ Report
  \/ WriteFile

Spec == Init /\ [][Next]_vars

\* create_playlist(tracks, ad_file, songs_between_ads) on any list of up to
\* MaxTracks paths, with no ad file, one outside the list or one in it, and
\* any cadence from 0 to one above MaxTracks.
InitAssemble ==
  /\ pc = "create_playlist"
  /\ tracks \in SeqsUpTo(TrackUniverse, MaxTracks)
  /\ ad_file \in {NoPath, PromoPath, Child(<<"md", "rock">>, TrackNames[1])}
  /\ cadence \in 0..MaxTracks + 1
  /\ ad_every = 0
  /\ md_exists = TRUE
  /\ pd_exists = TRUE
  /\ fs = Tree(MaxTracks)
  /\ length = [p \in AudioPaths(fs) |-> Unknown]
  /\ Idle
  /\ k = 1
  /\ durations = <<>>
  /\ avg_duration = Zero

NextAssemble ==
  \/ Shuffle
  \/ LoopStep
  \/ LoopReturn

SpecAssemble == InitAssemble /\ [][NextAssemble]_vars

\* get_average_duration(paths) on any list of up to MaxTracks paths and any
\* answers of the oracle.
InitAverage ==
  /\ pc = "get_average_duration"
  /\ tracks \in SeqsUpTo(TrackUniverse, MaxTracks)
  /\ fs = Tree(MaxTracks)
  /\ length \in [AudioPaths(fs) -> Samples]
  /\ length[PromoPath] = Unknown
  /\ k = 1
  /\ durations = <<>>
  /\ avg_duration = Zero
  /\ ad_every = 0
  /\ md_exists = TRUE
  /\ pd_exists = TRUE
  /\ Idle
  /\ ad_file = NoPath
  /\ cadence = 0

NextAverage ==
  \/ AverageStep
  \/ AverageReturn

SpecAverage == InitAverage /\ [][NextAverage]_vars

\* ================================================================ claims
CountIn(s, x) == Cardinality({n \in 1..Len(s) : s[n] = x})

\* The entries of a playlist that line 127 did not append, in order.
RECURSIVE NonAd(_, _, _)
NonAd(s, ads, n) ==
  IF n > Len(s) THEN <<>>
  ELSE (IF n \in ads THEN <<>> ELSE <<s[n]>>) \o NonAd(s, ads, n + 1)

SameMultiset(s, t) ==
  /\ Len(s) = Len(t)
  /\ \A x \in Range(s) \cup Range(t) : CountIn(s, x) = CountIn(t, x)

Returned == pc = "create_playlist_returned"
WithAds == cadence >= 1 /\ ad_file # NoPath

\* C1: with a cadence C >= 1 and an ad file, the playlist create_playlist
\* returns for L tracks holds exactly floor(L / C) inserted ads (each of them
\* the ad file), and so L + floor(L / C) entries.
C1_AdCount ==
  (Returned /\ WithAds) =>
    /\ Cardinality(inserted) = Len(given) \div cadence
    /\ Len(out) = Len(given) + (Len(given) \div cadence)
    /\ \A p \in inserted : p \in 1..Len(out) /\ out[p] = ad_file

C1_Witness ==
  /\ Returned /\ WithAds
  /\ Len(given) = 2 /\ cadence = 2
  /\ Cardinality(inserted) = 1

\* C2: for a non-empty track list and a cadence C >= 1, with or without an ad
\* file, the entries of the returned playlist that are not inserted ads are
\* the shuffled tracks, a permutation of the list passed in: the same
\* multiset, nothing dropped, nothing duplicated.
C2_Permutation ==
  (Returned /\ given # <<>> /\ cadence >= 1) =>
    /\ NonAd(out, inserted, 1) = tracks
    /\ SameMultiset(NonAd(out, inserted, 1), given)

C2_Witness ==
  /\ Returned /\ WithAds
  /\ Len(given) = 3 /\ cadence = 1
  /\ given[1] = given[2] /\ given[1] # given[3]
  /\ tracks # given
  /\ ad_file \in Range(given)

\* C3 (as claimed): with a cadence of 0 or no ad file, create_playlist
\* inserts no ad and returns exactly the shuffled tracks.
C3_NoAdsAsClaimed ==
  (cadence = 0 \/ ad_file = NoPath) =>
    /\ pc \in {"create_playlist_loop", "create_playlist_returned"} => inserted = {}
    /\ Returned => out = tracks

\* C4 (as amended): with a cadence C >= 1 and an ad file, the inserted ads of
\* the playlist returned for L tracks sit exactly at the positions k * (C + 1),
\* k = 1..floor(L / C); each follows C entries that are tracks, no two are
\* adjacent, and the playlist ends with an ad iff L >= 1 and C divides L.
AdPositions(L, C) == {n * (C + 1) : n \in 1..(L \div C)}

C4_Placement ==
  (Returned /\ WithAds) =>
    /\ inserted = AdPositions(Len(given), cadence)
    /\ \A p \in inserted :
         /\ out[p] = ad_file
         /\ p > cadence
         /\ \A q \in (p - cadence)..(p - 1) : q \notin inserted
         /\ SubSeq(out, p - cadence, p - 1)
              = SubSeq(tracks, p - cadence - (p \div (cadence + 1)) + 1,
                       p - (p \div (cadence + 1)))
    /\ \A p \in inserted : p + 1 \notin inserted

C4_EndsWithAd ==
  (Returned /\ WithAds) =>
    (Len(out) \in inserted <=> (Len(given) >= 1 /\ Len(given) % cadence = 0))

C4_Amended == C4_Placement /\ C4_EndsWithAd

\* C4 (as claimed): ... and the playlist ends with an ad iff C divides L.
C4_AsClaimed ==
  /\ C4_Placement
  /\ (Returned /\ WithAds) => (Len(out) \in inserted <=> Len(given) % cadence = 0)

C4_Witness ==
  /\ Returned /\ WithAds
  /\ Len(given) = 3 /\ cadence = 2
  /\ inserted = {3}
  /\ Len(out) = 4

\* C5: select_value is called for the ads folder, the ad file and the music
\* folder, in that order, and a call that returns None ends the run: no later
\* call is made, no tracks are listed, nothing is assembled and no file is
\* written, whatever the earlier calls returned.
SelectorOrder ==
  <<"Select the ads folder", "Select the ad file", "Select the music folder">>

C5_CancelIsTerminal ==
  /\ Len(calls) <= 3
  /\ calls = SubSeq(SelectorOrder, 1, Len(calls))
  /\ Len(returned) <= Len(calls)
  /\ \A n \in 1..Len(returned) :
       returned[n] = None =>
         /\ Len(returned) = n
         /\ Len(calls) = n
         /\ pc = "exit"
         /\ ~app.running
         /\ tracks = <<>> /\ durations = <<>> /\ iters = 0
         /\ out = <<>> /\ playlist = <<>>
         /\ file = <<>>

C5_Witness ==
  /\ returned = <<"ads", "promo.mp3", None>>
  /\ pc = "exit"
  /\ ad_file = PromoPath
  /\ fs[<<"md", "rock">>] # Tree(0)[<<"md", "rock">>]

\* C6: the songs-between-ads value of lines 226-230 is 0 when the average
\* duration is 0, and for an average d > 0 it is max(1, round(x * 60 / d)),
\* the integer nearest to the quotient (the even one on a tie) and never
\* less than 1, for every interval x >= 0.
C6_SongsBetweenAds ==
  pc \in {"write", "done"} =>
    LET P == ad_every * 60 * avg_duration.den
        Q == avg_duration.num
        n == songs_between_ads
        twiceGap == IF 2 * n * Q >= 2 * P THEN 2 * n * Q - 2 * P ELSE 2 * P - 2 * n * Q
    IN  /\ ad_every >= 0
        /\ Q >= 0
        /\ Q = 0 => n = 0
        /\ Q > 0 =>
             /\ n >= 1
             /\ n = 1 => 2 * P < 3 * Q
             /\ n > 1 => (twiceGap < Q \/ (twiceGap = Q /\ n % 2 = 0))

C6_Witness ==
  /\ pc = "done"
  /\ ad_every = 1
  /\ avg_duration = Frac(150, 1)
  /\ songs_between_ads = 1

\* C7: get_average_duration returns the mean of the samples of exactly the
\* paths that have one (a path without a sample is left out, not counted as
\* 0), and exactly 0 when the list is empty or no path has a sample.
RECURSIVE SumOver(_)
SumOver(S) ==
  IF S = {} THEN 0
  ELSE LET n == CHOOSE m \in S : TRUE
       IN  Lookup(tracks[n])[1] + SumOver(S \ {n})

C7_Mean ==
  pc = "average_returned" =>
    LET known == {n \in 1..Len(tracks) : Lookup(tracks[n]) # Unknown}
    IN  IF known = {}
          THEN avg_duration = Zero
          ELSE /\ avg_duration.den = Cardinality(known)
               /\ avg_duration.num = SumOver(known)

C7_Witness ==
  /\ pc = "average_returned"
  /\ Len(tracks) = 3
  /\ Lookup(tracks[1]) = <<24>>
  /\ Lookup(tracks[2]) = <<150>>
  /\ Lookup(tracks[3]) = Unknown
  /\ avg_duration = Frac(174, 2)

\* C8: the playlist file is written iff all three select_value calls
\* returned a label and the music folder holds an audio file; a folder
\* without one ends the run with nothing assembled or written; and with an
\* average of 0 the file is still written, each track on one line and no ad.
HasAudio(dir) ==
  \E e \in fs[dir] : ~e.is_dir /\ Lower(Suffix(e.name)) \in AUDIO_EXTS

AllChosen == Len(returned) = 3 /\ \A n \in 1..3 : returned[n] # None

C8_Written ==
  /\ file # <<>> => (pc = "done" /\ AllChosen /\ HasAudio(music_folder))
  /\ pc \in {"exit", "return", "done"} =>
       (file # <<>> <=> (AllChosen /\ HasAudio(music_folder)))
  /\ pc = "return" =>
       /\ AllChosen /\ ~HasAudio(music_folder)
       /\ message = "No audio files found."
       /\ tracks = <<>> /\ iters = 0 /\ out = <<>> /\ playlist = <<>> /\ file = <<>>
  /\ (pc = "done" /\ IsZero(avg_duration)) =>
       /\ inserted = {}
       /\ Len(file[1]) = Len(tracks)
       /\ \A e \in fs[music_folder] :
            (~e.is_dir /\ Lower(Suffix(e.name)) \in AUDIO_EXTS) =>
              CountIn(file[1], <<Name(music_folder), e.name>>) = 1

C8_Witness ==
  /\ pc = "done"
  /\ IsZero(avg_duration)
  /\ Len(tracks) = 2
  /\ Len(file[1]) = 2
  /\ ad_file = PromoPath

\* C9: the picker is browsing (running, nothing selected), confirmed (exited
\* on a list selection, with that item's label) or cancelled (exited on 'q',
\* with no selection); any other key leaves it browsing.  So select_value
\* returns one of the choices or None, and from an empty list only None.
Browsing == app.running /\ app.selection = None /\ app.event.kind \in {"none", "key"}
Confirmed ==
  /\ ~app.running
  /\ app.event.kind = "selected"
  /\ app.event.item \in 1..Len(app.values)
  /\ app.selection = app.values[app.event.item]
Cancelled == ~app.running /\ app.event.kind = "key" /\ app.selection = None

InCreatePlaylist ==
  pc \in {"create_playlist", "create_playlist_loop", "create_playlist_returned"}

C10_Terminates ==
  /\ InCreatePlaylist =>
       /\ IsPositive(avg_duration)
       /\ cadence >= 1
       /\ ad_file # NoPath
  /\ (cadence # 0 \/ songs_between_ads # 0) => IsPositive(avg_duration)
  /\ pc = "create_playlist_loop" =>
       /\ i = iters * cadence
       /\ i < Len(tracks) + cadence
       /\ i < Len(tracks) => iters < LoopCap
  /\ Returned =>
       /\ i = iters * cadence
       /\ iters * cadence >= Len(tracks)
       /\ (iters - 1) * cadence < Len(tracks)

C10_Witness ==
  /\ Returned
  /\ pc = "create_playlist_returned"
  /\ Len(tracks) = 3
  /\ cadence = 2
  /\ iters = 2
  /\ ad_every > 0
====
